---- MODULE Spec2Model ----
(***************************************************************************)
(* checksummarizer: a webhook handler that, for every finished check run   *)
(* of one observed GitHub application, lists that application's check runs *)
(* on the commit, classifies them, and creates one synthetic roll-up check *)
(* run.  src/main.go holds two deployment variants of the same program:    *)
(* the observed application given by display name (lines 1-226) and by ID  *)
(* (lines 228-439).                                                        *)
(***************************************************************************)
EXTENDS Integers, Sequences, FiniteSets, TLC

VARIABLES
    variant,      \* which of the two programs is deployed: "name" or "id"
    store,        \* GitHub: the check runs that exist, in listing order
    synthetic,    \* GitHub: the check runs created through CreateCheckRun
    pc,           \* per delivery: idle, list (call in flight), create, done
    request,      \* per delivery: the HTTP request being handled
    listCalls,    \* per delivery: the ListCheckRunsForRef calls issued
    createCalls,  \* per delivery: the CreateCheckRun calls issued
    fetched,      \* per delivery: result.CheckRuns of its list call
    buckets,      \* per delivery: the locals success, failure, inProgress
    listOutcome,  \* per delivery: how its list call ended
    createOutcome,\* per delivery: how its create call ended
    httpStatus,   \* per delivery: the status code answered to the sender
    returned      \* per delivery: what handleCheckRunEvent returned

vars == <<variant, store, synthetic, pc, request, listCalls, createCalls,
          fetched, buckets, listOutcome, createOutcome, httpStatus, returned>>

-----------------------------------------------------------------------------
(* Bounds of the model. *)

\* Deliveries that arrive (and may be handled concurrently).
NumDeliveries == 2

\* Longest list of check runs the listing returns in SpecAggregate.
MaxRuns == 3

-----------------------------------------------------------------------------
(* Configuration and vocabulary. *)

Variants == {"name", "id"}

\* OBSERVED_APP_NAME and OBSERVED_APP_ID of the environment.
observedAppName == "ci"
observedAppID == 1001

StatusOK == 200
StatusCreated == 201
StatusBadRequest == 400
StatusInternalServerError == 500

\* The absent value of a pointer field (Conclusion: nil).
Nil == "<nil>"

Deliveries == 1..NumDeliveries

\* Applications that own check runs: the observed one, the observed one
\* after a rename (same ID, other display name), and an unrelated one.
Apps ==
    { [id |-> observedAppID, name |-> observedAppName],
      [id |-> observedAppID, name |-> "ci-renamed"],
      [id |-> 2002, name |-> "lint"] }

Owner == "acme"
RepoName == "widgets"
Commit == "abc123"
OtherCommit == "def456"

Statuses == {"queued", "in_progress", "completed"}

Conclusions ==
    {"", "success", "failure", "neutral", "cancelled", "timed_out",
     "action_required", "stale", "skipped", "unrecognised"}

Names == {"build", "test"}

DetailsURLs == {"", "https://ci.example/run"}

\* github.CheckRun as the listing returns it (the fields the program reads).
CheckRunRecords ==
    [name : Names, status : Statuses, conclusion : Conclusions,
     detailsURL : DetailsURLs]

-----------------------------------------------------------------------------
(* Pure parts of handleCheckRunEvent. *)

EmptyBuckets == [success |-> <<>>, failure |-> <<>>, inProgress |-> <<>>]

\* The element appended to a bucket: a check{name, detailsURL} in the name
\* variant, the bare name in the ID variant.
BucketEntry(v, checkRun) ==
    IF v = "name"
    THEN [name |-> checkRun.name, detailsURL |-> checkRun.detailsURL]
    ELSE checkRun.name

FailureConclusions == {"failure", "cancelled", "stale", "timed_out"}

\* The nested switch with the conclusion looked at before the status.
BucketOf_ConclusionFirst(checkRun) ==
    IF checkRun.conclusion \in FailureConclusions THEN "failure"
    ELSE IF checkRun.conclusion = "action_required" THEN "inProgress"
    ELSE IF checkRun.status = "completed" THEN "success"
    ELSE "inProgress"

\* The switch without its case for action_required, which then falls to
\* the default.
BucketOf_NoActionRequired(checkRun) ==
    IF checkRun.status = "completed"
    THEN IF checkRun.conclusion \in FailureConclusions THEN "failure"
         ELSE "success"
    ELSE "inProgress"

\* The bucket one check run goes to (the nested switch).
BucketOf(checkRun) ==
    IF checkRun.status = "completed"
    THEN IF checkRun.conclusion \in FailureConclusions THEN "failure"
         ELSE IF checkRun.conclusion = "action_required" THEN "inProgress"
         ELSE "success"
    ELSE "inProgress"

\* The loop body keeping one entry per name and bucket.
ClassifyStep_DedupByName(v, b, checkRun) ==
    IF \E i \in 1..Len(b[BucketOf(checkRun)]) :
          b[BucketOf(checkRun)][i] = BucketEntry(v, checkRun)
    THEN b
    ELSE [b EXCEPT ![BucketOf(checkRun)] = Append(@, BucketEntry(v, checkRun))]

\* The loop body with the ID variant's switch lacking the case for
\* action_required.
ClassifyStep_IdNoActionRequired(v, b, checkRun) ==
    [b EXCEPT ![IF v = "id" THEN BucketOf_NoActionRequired(checkRun)
                ELSE BucketOf(checkRun)] =
        Append(@, BucketEntry(v, checkRun))]

\* The loop body putting the newest entry at the head of its bucket.
ClassifyStep_Prepend(v, b, checkRun) ==
    [b EXCEPT ![BucketOf(checkRun)] = <<BucketEntry(v, checkRun)>> \o @]

\* One iteration of the loop over result.CheckRuns.
ClassifyStep(v, b, checkRun) ==
    [b EXCEPT ![BucketOf(checkRun)] = Append(@, BucketEntry(v, checkRun))]

RECURSIVE ClassifyFrom(_, _, _, _)
ClassifyFrom(v, b, checkRuns, i) ==
    IF i > Len(checkRuns) THEN b
    ELSE ClassifyFrom(v, ClassifyStep(v, b, checkRuns[i]), checkRuns, i + 1)

RECURSIVE AccumulatedUpTo(_)
\* What the deliveries up to the n-th have put in their buckets.
AccumulatedUpTo(n) ==
    IF n = 0 THEN EmptyBuckets
    ELSE [success |-> AccumulatedUpTo(n - 1).success \o buckets[n].success,
          failure |-> AccumulatedUpTo(n - 1).failure \o buckets[n].failure,
          inProgress |->
              AccumulatedUpTo(n - 1).inProgress \o buckets[n].inProgress]

\* The loop over buckets declared at package level, which every
\* invocation appends to.
Classify_PackageLevel(v, checkRuns) ==
    ClassifyFrom(v, AccumulatedUpTo(NumDeliveries), checkRuns, 1)

\* var success, failure, inProgress after the loop.
Classify(v, checkRuns) == ClassifyFrom(v, EmptyBuckets, checkRuns, 1)

\* The derivation with the pending test before the failure test.
DeriveOverall_PendingFirst(b) ==
    IF Len(b.inProgress) > 0
    THEN [status |-> "in_progress", conclusion |-> Nil]
    ELSE IF Len(b.failure) > 0
    THEN [status |-> "completed", conclusion |-> "failure"]
    ELSE [status |-> "completed", conclusion |-> "success"]

\* The derivation passing &conclusionStr whether or not it is empty.
DeriveOverall_EmptyConclusion(b) ==
    IF Len(b.failure) > 0
    THEN [status |-> "completed", conclusion |-> "failure"]
    ELSE IF Len(b.inProgress) > 0
    THEN [status |-> "in_progress", conclusion |-> ""]
    ELSE [status |-> "completed", conclusion |-> "success"]

\* The derivation with two independent tests: a failure sets the
\* conclusion and a pending check run then resets the status alone.
DeriveOverall_IndependentTests(b) ==
    [status |-> IF Len(b.inProgress) > 0 THEN "in_progress" ELSE "completed",
     conclusion |-> IF Len(b.failure) > 0 THEN "failure"
                    ELSE IF Len(b.inProgress) > 0 THEN Nil
                    ELSE "success"]

\* status and conclusion (a *string, nil when conclusionStr is empty).
DeriveOverall(b) ==
    IF Len(b.failure) > 0
    THEN [status |-> "completed", conclusion |-> "failure"]
    ELSE IF Len(b.inProgress) > 0
    THEN [status |-> "in_progress", conclusion |-> Nil]
    ELSE [status |-> "completed", conclusion |-> "success"]

RECURSIVE JoinFrom(_, _, _)
\* The elements from the i-th on, sep between them.
JoinFrom(parts, sep, i) ==
    IF i > Len(parts) THEN ""
    ELSE IF i = Len(parts) THEN parts[i]
    ELSE parts[i] \o sep \o JoinFrom(parts, sep, i + 1)

\* strings.Join
Join(parts, sep) == JoinFrom(parts, sep, 1)

\* One bullet line of the summary.
Bullet(v, entry) ==
    IF v = "name"
    THEN "- [" \o entry.name \o "](" \o entry.detailsURL \o ");"
    ELSE "- " \o entry

\* The bullet lines of a bucket, in its order.
Bullets(v, collection) ==
    [i \in 1..Len(collection) |-> Bullet(v, collection[i])]

\* The lines of a section without the empty line that closes it.
Section_NoBlankLine(v, label, collection, last) ==
    <<"## " \o label \o ":">> \o Bullets(v, collection)

\* The lines one non-empty bucket adds to summaryParts: appendChecks in the
\* name variant; in the ID variant the in-progress section, the last one,
\* has no trailing empty line.
Section(v, label, collection, last) ==
    <<"## " \o label \o ":">> \o Bullets(v, collection)
        \o (IF v = "id" /\ last THEN <<>> ELSE <<"">>)

\* The title fragments without the tests for empty buckets.
TitleParts_EmptyBucketsToo(b) ==
    << ToString(Len(b.success)) \o " successful",
       ToString(Len(b.failure)) \o " failed",
       ToString(Len(b.inProgress)) \o " in progress" >>

\* The title fragments with the failed count ahead of the successful one.
TitleParts_FailedFirst(b) ==
    (IF Len(b.failure) > 0
        THEN <<ToString(Len(b.failure)) \o " failed">> ELSE <<>>)
    \o (IF Len(b.success) > 0
        THEN <<ToString(Len(b.success)) \o " successful">> ELSE <<>>)
    \o (IF Len(b.inProgress) > 0
        THEN <<ToString(Len(b.inProgress)) \o " in progress">> ELSE <<>>)

TitleParts(b) ==
    (IF Len(b.success) > 0
        THEN <<ToString(Len(b.success)) \o " successful">> ELSE <<>>)
    \o (IF Len(b.failure) > 0
        THEN <<ToString(Len(b.failure)) \o " failed">> ELSE <<>>)
    \o (IF Len(b.inProgress) > 0
        THEN <<ToString(Len(b.inProgress)) \o " in progress">> ELSE <<>>)

SummaryParts(v, b) ==
    (IF Len(b.success) > 0
        THEN Section(v, "Successful checks", b.success, FALSE) ELSE <<>>)
    \o (IF Len(b.failure) > 0
        THEN Section(v, "Failed checks", b.failure, FALSE) ELSE <<>>)
    \o (IF Len(b.inProgress) > 0
        THEN Section(v, "Checks in progress", b.inProgress, TRUE) ELSE <<>>)

Title(b) == Join(TitleParts(b), ", ")

Summary(v, b) == Join(SummaryParts(v, b), "\n")

\* Name of the synthetic check run.
SyntheticName(v) ==
    IF v = "name" THEN "Synthetic status for " \o observedAppName
    ELSE "Synthetic status"

\* The create call: owner, repoName and the github.CreateCheckRunOptions.
CreateCall(v, event, b) ==
    [owner |-> event.owner,
     repo |-> event.repo,
     Name |-> SyntheticName(v),
     HeadSHA |-> event.headSHA,
     Status |-> DeriveOverall(b).status,
     Conclusion |-> DeriveOverall(b).conclusion,
     Title |-> Title(b),
     Summary |-> Summary(v, b)]

-----------------------------------------------------------------------------
(* The GitHub side: the check-run store and the two REST operations. *)

\* One stored check run: the application and commit it belongs to, and the
\* record the listing returns for it.
Stored(appID, sha, run) == [appID |-> appID, headSHA |-> sha, run |-> run]

RECURSIVE RunsFrom(_, _, _, _)
RunsFrom(st, ref, appID, i) ==
    IF i > Len(st) THEN <<>>
    ELSE (IF st[i].headSHA = ref /\ st[i].appID = appID
            THEN <<st[i].run>> ELSE <<>>)
         \o RunsFrom(st, ref, appID, i + 1)

\* ListCheckRunsForRef(owner, repo, ref, {AppID}): the check runs of the
\* commit, filtered server-side to one application, in listing order.
RunsOf(st, ref, appID) == RunsFrom(st, ref, appID, 1)

ListCheckRunsForRef(st, call) ==
    IF call.owner = Owner /\ call.repo = RepoName
    THEN RunsOf(st, call.ref, call.appID)
    ELSE <<>>

\* How a REST call can end: a transport error, or a response with a status
\* code.  applied: whether the server carried the operation out.
ListOutcomes ==
    { [err |-> TRUE, statusCode |-> 0, applied |-> FALSE],
      [err |-> FALSE, statusCode |-> StatusOK, applied |-> TRUE],
      [err |-> FALSE, statusCode |-> 204, applied |-> FALSE] }

CreateOutcomes ==
    { [err |-> TRUE, statusCode |-> 0, applied |-> FALSE],
      [err |-> TRUE, statusCode |-> 0, applied |-> TRUE],
      [err |-> FALSE, statusCode |-> StatusCreated, applied |-> TRUE],
      [err |-> FALSE, statusCode |-> StatusOK, applied |-> FALSE] }

\* No response yet.
NoOutcome == [err |-> FALSE, statusCode |-> 0, applied |-> FALSE]

\* The test after the list call without its look at the status code.
ListSucceeded_ErrOnly(o) == ~o.err

\* err == nil and response.StatusCode == http.StatusOK after the list call.
ListSucceeded(o) == ~o.err /\ o.statusCode = StatusOK

\* err == nil and response.StatusCode == http.StatusCreated after the
\* create call.
CreateSucceeded(o) == ~o.err /\ o.statusCode = StatusCreated

\* A create that replaces the synthetic check run of the same name and
\* commit when there is one.
CreateCheckRun_Upsert(syn, d, opts) ==
    IF \E i \in 1..Len(syn) :
          syn[i].run.Name = opts.Name /\ syn[i].run.HeadSHA = opts.HeadSHA
    THEN [i \in 1..Len(syn) |->
            IF syn[i].run.Name = opts.Name /\ syn[i].run.HeadSHA = opts.HeadSHA
            THEN [id |-> syn[i].id, by |-> d, run |-> opts]
            ELSE syn[i]]
    ELSE Append(syn, [id |-> Len(syn) + 1, by |-> d, run |-> opts])

\* The server's side of CreateCheckRun: a new check run, with a fresh id,
\* after those that exist.
CreateCheckRun(syn, d, opts) ==
    Append(syn, [id |-> Len(syn) + 1, by |-> d, run |-> opts])

-----------------------------------------------------------------------------
(* Webhook deliveries. *)

\* The check_run event of a webhook payload (the fields the program reads).
CheckRunEvent(app, status, conclusion, sha) ==
    [app |-> app, name |-> "build", status |-> status,
     conclusion |-> conclusion, headSHA |-> sha,
     owner |-> Owner, repo |-> RepoName]

\* An HTTP request: does its signature validate, does its payload decode,
\* its event type, and the event it carries.
Request(valid, decodes, type, event) ==
    [signatureValid |-> valid, decodes |-> decodes, webHookType |-> type,
     event |-> event]

RelevantEvent == CheckRunEvent([id |-> observedAppID, name |-> observedAppName],
                               "completed", "success", Commit)

CheckRunRequests(shas) ==
    { Request(TRUE, TRUE, "check_run", CheckRunEvent(a, sc[1], sc[2], sha)) :
        a \in Apps,
        sc \in {<<"in_progress", "">>, <<"completed", "success">>},
        sha \in shas }

\* Every kind of delivery: forged, undecodable, of another event type, and
\* check_run events of every application, finished or not.
Requests ==
    { Request(FALSE, TRUE, "check_run", RelevantEvent),
      Request(TRUE, FALSE, "check_run", RelevantEvent),
      Request(TRUE, TRUE, "push", RelevantEvent) }
    \cup CheckRunRequests({Commit})
    \cup { Request(TRUE, TRUE, "check_run",
                   CheckRunEvent([id |-> observedAppID,
                                  name |-> observedAppName],
                                 "completed", "failure", OtherCommit)) }

\* The event filter without its test of the conclusion.
ShouldProcess_AnyConclusion(v, event) ==
    IF v = "name" THEN event.app.name = observedAppName
                  ELSE event.app.id = observedAppID

\* The event filter at the top of handleCheckRunEvent.
ShouldProcess(v, event) ==
    /\ IF v = "name" THEN event.app.name = observedAppName
                     ELSE event.app.id = observedAppID
    /\ event.conclusion # ""

\* The list call with owner and repoName in each other's place.
ListCall_SwappedArgs(v, event) ==
    [owner |-> event.repo, repo |-> event.owner, ref |-> event.headSHA,
     appID |-> IF v = "name" THEN event.app.id ELSE observedAppID]

\* The arguments of the list call.
ListCall(v, event) ==
    [owner |-> event.owner, repo |-> event.repo, ref |-> event.headSHA,
     appID |-> IF v = "name" THEN event.app.id ELSE observedAppID]

\* The dispatch that logs and ignores a payload it cannot decode.
Dispatch_IgnoreUndecodable(v, r) ==
    IF ~r.signatureValid THEN "400"
    ELSE IF ~r.decodes THEN "ignored"
    ELSE IF r.webHookType # "check_run" THEN "ignored"
    ELSE IF ~ShouldProcess(v, r.event) THEN "filtered"
    ELSE "list"

\* Where BuildHandler goes with a request before any network call:
\* "400" (rejected), "ignored" (another event type), "filtered" (the event
\* filter returned nil), "list" (the list call is issued).
Dispatch(v, r) ==
    IF ~r.signatureValid THEN "400"
    ELSE IF ~r.decodes THEN "400"
    ELSE IF r.webHookType # "check_run" THEN "ignored"
    ELSE IF ~ShouldProcess(v, r.event) THEN "filtered"
    ELSE "list"

\* A delivery that waits for a mutex held for the whole of
\* handleCheckRunEvent: it arrives only when no other is in flight.
Receive_Serialised(d, reqs) ==
    /\ pc[d] = "idle"
    /\ \A e \in Deliveries : e < d => pc[e] # "idle"
    /\ \A e \in Deliveries \ {d} : pc[e] \in {"idle", "done"}
    /\ \E r \in reqs :
        LET go == Dispatch(variant, r) IN
        /\ request' = [request EXCEPT ![d] = r]
        /\ pc' = [pc EXCEPT ![d] = IF go = "list" THEN "list" ELSE "done"]
        /\ listCalls' = [listCalls EXCEPT ![d] =
              IF go = "list" THEN Append(@, ListCall(variant, r.event)) ELSE @]
        /\ httpStatus' = [httpStatus EXCEPT ![d] =
              IF go = "400" THEN StatusBadRequest
              ELSE IF go = "list" THEN @ ELSE StatusOK]
        /\ returned' = [returned EXCEPT ![d] =
              IF go = "filtered" THEN "nil" ELSE @]
    /\ UNCHANGED <<variant, store, synthetic, createCalls, fetched, buckets,
                   listOutcome, createOutcome>>

\* A delivery arrives: ValidatePayload, ParseWebHook, the type switch and
\* handleCheckRunEvent up to its list call.  Deliveries are numbered in
\* order of arrival.
Receive(d, reqs) ==
    /\ pc[d] = "idle"
    /\ \A e \in Deliveries : e < d => pc[e] # "idle"
    /\ \E r \in reqs :
        LET go == Dispatch(variant, r) IN
        /\ request' = [request EXCEPT ![d] = r]
        /\ pc' = [pc EXCEPT ![d] = IF go = "list" THEN "list" ELSE "done"]
        /\ listCalls' = [listCalls EXCEPT ![d] =
              IF go = "list" THEN Append(@, ListCall(variant, r.event)) ELSE @]
        /\ httpStatus' = [httpStatus EXCEPT ![d] =
              IF go = "400" THEN StatusBadRequest
              ELSE IF go = "list" THEN @ ELSE StatusOK]
        /\ returned' = [returned EXCEPT ![d] =
              IF go = "filtered" THEN "nil" ELSE @]
    /\ UNCHANGED <<variant, store, synthetic, createCalls, fetched, buckets,
                   listOutcome, createOutcome>>

\* The list call returns; on success the handler classifies, derives,
\* renders and issues the create call.
ListReturns(d, outcomes) ==
    /\ pc[d] = "list"
    /\ \E o \in outcomes :
        \E checkRuns \in { IF o.applied
                            THEN ListCheckRunsForRef(store, listCalls[d][1])
                            ELSE <<>> } :
        \E b \in { Classify(variant, checkRuns) } :
        LET ok == ListSucceeded(o) IN
        /\ listOutcome' = [listOutcome EXCEPT ![d] = o]
        /\ pc' = [pc EXCEPT ![d] = IF ok THEN "create" ELSE "done"]
        /\ fetched' = [fetched EXCEPT ![d] = IF ok THEN checkRuns ELSE @]
        /\ buckets' = [buckets EXCEPT ![d] = IF ok THEN b ELSE @]
        /\ createCalls' = [createCalls EXCEPT ![d] =
              IF ok
              THEN Append(@, CreateCall(variant, request[d].event, b))
              ELSE @]
        /\ returned' = [returned EXCEPT ![d] =
              IF ok THEN @ ELSE "error listing check runs"]
        /\ httpStatus' = [httpStatus EXCEPT ![d] =
              IF ok THEN @ ELSE StatusInternalServerError]
    /\ UNCHANGED <<variant, store, synthetic, request, listCalls,
                   createOutcome>>

\* The create call returns, and is issued once more when it failed.
CreateReturns_Retry(d, outcomes) ==
    /\ pc[d] = "create"
    /\ \E o \in outcomes :
        LET ok == CreateSucceeded(o)
            again == ~ok /\ Len(createCalls[d]) < 2
        IN
        /\ createOutcome' = [createOutcome EXCEPT ![d] = o]
        /\ synthetic' =
              IF o.applied
              THEN CreateCheckRun(synthetic, d, createCalls[d][1])
              ELSE synthetic
        /\ createCalls' = [createCalls EXCEPT ![d] =
              IF again THEN Append(@, @[1]) ELSE @]
        /\ pc' = [pc EXCEPT ![d] = IF again THEN "create" ELSE "done"]
        /\ returned' = [returned EXCEPT ![d] =
              IF ok THEN "nil" ELSE IF again THEN @
              ELSE "error creating check run"]
        /\ httpStatus' = [httpStatus EXCEPT ![d] =
              IF ok THEN StatusOK ELSE IF again THEN @
              ELSE StatusInternalServerError]
    /\ UNCHANGED <<variant, store, request, listCalls, fetched, buckets,
                   listOutcome>>

\* The create call returns.
CreateReturns(d, outcomes) ==
    /\ pc[d] = "create"
    /\ \E o \in outcomes :
        LET ok == CreateSucceeded(o) IN
        /\ createOutcome' = [createOutcome EXCEPT ![d] = o]
        /\ synthetic' =
              IF o.applied
              THEN CreateCheckRun(synthetic, d, createCalls[d][1])
              ELSE synthetic
        /\ returned' = [returned EXCEPT ![d] =
              IF ok THEN "nil" ELSE "error creating check run"]
        /\ httpStatus' = [httpStatus EXCEPT ![d] =
              IF ok THEN StatusOK ELSE StatusInternalServerError]
    /\ pc' = [pc EXCEPT ![d] = "done"]
    /\ UNCHANGED <<variant, store, request, listCalls, createCalls, fetched,
                   buckets, listOutcome>>

\* The observed application finishes one of its check runs.
CheckRunCompletes ==
    /\ \E i \in 1..Len(store), c \in {"success", "failure"} :
        /\ store[i].appID = observedAppID
        /\ store[i].headSHA = Commit
        /\ store[i].run.status # "completed"
        /\ store' = [store EXCEPT ![i].run.status = "completed",
                                  ![i].run.conclusion = c]
    /\ UNCHANGED <<variant, synthetic, pc, request, listCalls, createCalls,
                   fetched, buckets, listOutcome, createOutcome, httpStatus,
                   returned>>

-----------------------------------------------------------------------------
(* Specifications. *)

\* Check runs that are on GitHub but not the observed application's on the
\* commit of the events: another application's, and another commit's.
Noise ==
    << Stored(2002, Commit, [name |-> "lint", status |-> "completed",
                             conclusion |-> "failure", detailsURL |-> ""]),
       Stored(observedAppID, OtherCommit,
              [name |-> "build", status |-> "completed",
               conclusion |-> "timed_out", detailsURL |-> ""]) >>

NoRequest == Request(FALSE, FALSE, "", RelevantEvent)

InitLocals ==
    /\ synthetic = <<>>
    /\ pc = [d \in Deliveries |-> "idle"]
    /\ request = [d \in Deliveries |-> NoRequest]
    /\ listCalls = [d \in Deliveries |-> <<>>]
    /\ createCalls = [d \in Deliveries |-> <<>>]
    /\ fetched = [d \in Deliveries |-> <<>>]
    /\ buckets = [d \in Deliveries |-> EmptyBuckets]
    /\ listOutcome = [d \in Deliveries |-> NoOutcome]
    /\ createOutcome = [d \in Deliveries |-> NoOutcome]
    /\ httpStatus = [d \in Deliveries |-> 0]
    /\ returned = [d \in Deliveries |-> "none"]

\* The server with two check runs of the observed application on the
\* commit, one under way and one finished.
Init ==
    /\ variant \in Variants
    /\ store = <<Noise[1],
                 Stored(observedAppID, Commit,
                        [name |-> "build", status |-> "in_progress",
                         conclusion |-> "",
                         detailsURL |-> "https://ci.example/run"]),
                 Stored(observedAppID, Commit,
                        [name |-> "test", status |-> "completed",
                         conclusion |-> "success", detailsURL |-> ""]),
                 Noise[2]>>
    /\ InitLocals

Deliver == \E d \in Deliveries : Receive(d, Requests)

ListDone == \E d \in Deliveries : ListReturns(d, ListOutcomes)

CreateDone == \E d \in Deliveries : CreateReturns(d, CreateOutcomes)

Next == Deliver \/ ListDone \/ CreateDone \/ CheckRunCompletes

Spec == Init /\ [][Next]_vars

-----------------------------------------------------------------------------
(* The aggregation on its own: one relevant delivery against every list of *)
(* check runs the listing can return.                                      *)

\* Representative check runs: a success with a details page, a failed
\* re-run of the same name without one, a pending one, and one that needs
\* a human.
CoreRuns ==
    { [name |-> "build", status |-> "completed", conclusion |-> "success",
       detailsURL |-> "https://ci.example/run"],
      [name |-> "build", status |-> "completed", conclusion |-> "failure",
       detailsURL |-> ""],
      [name |-> "test", status |-> "in_progress", conclusion |-> "",
       detailsURL |-> "https://ci.example/run"],
      [name |-> "test", status |-> "completed",
       conclusion |-> "action_required", detailsURL |-> ""] }

\* Every status with every conclusion, under either name.
AnyRuns == { r \in CheckRunRecords : r.detailsURL = "" }

ListsOver(S, n) == UNION { [1..k -> S] : k \in 0..n }

InsertAt(l, i, r) == SubSeq(l, 1, i - 1) \o <<r>> \o SubSeq(l, i, Len(l))

\* The lists of at most MaxRuns check runs over CoreRuns, and those with
\* one arbitrary record of AnyRuns anywhere among them.
FetchedLists ==
    ListsOver(CoreRuns, MaxRuns)
    \cup UNION { { InsertAt(l, i, r) :
                     i \in 1..(Len(l) + 1), r \in AnyRuns } :
                 l \in ListsOver(CoreRuns, MaxRuns - 1) }

InitAggregate ==
    /\ variant \in Variants
    /\ \E l \in FetchedLists :
         store = <<Noise[1]>>
                 \o [i \in 1..Len(l) |-> Stored(observedAppID, Commit, l[i])]
                 \o <<Noise[2]>>
    /\ InitLocals

\* The one delivery: a finished check run of the observed application.
RelevantRequests == { Request(TRUE, TRUE, "check_run", RelevantEvent) }

Arrive == Receive(1, RelevantRequests)

Listed == ListReturns(1, ListOutcomes)

Created == CreateReturns(1, CreateOutcomes)

NextAggregate == Arrive \/ Listed \/ Created

SpecAggregate == InitAggregate /\ [][NextAggregate]_vars

-----------------------------------------------------------------------------
(* Deliveries that do not overlap: every check run of the observed         *)
(* application on the commit finishes, each completion is delivered once,  *)
(* one delivery is handled at a time, and no call fails.                   *)

\* The conclusions a check run finishes with.
FinalConclusions == {"success", "failure", "action_required", "timed_out"}

\* The i-th check run of the observed application, under way.
PendingRun(i) ==
    [name |-> "check" \o ToString(i), status |-> "in_progress",
     conclusion |-> "", detailsURL |-> ""]

InitSequential ==
    /\ variant \in Variants
    /\ store = <<Noise[1]>>
               \o [i \in 1..NumDeliveries |->
                     Stored(observedAppID, Commit, PendingRun(i))]
               \o <<Noise[2]>>
    /\ InitLocals

\* A check run of the observed application finishes, with any conclusion,
\* and is not restarted.
CheckRunFinishes ==
    /\ \E i \in 1..Len(store), c \in FinalConclusions :
        /\ store[i].appID = observedAppID
        /\ store[i].headSHA = Commit
        /\ store[i].run.status # "completed"
        /\ store' = [store EXCEPT ![i].run.status = "completed",
                                  ![i].run.conclusion = c]
    /\ UNCHANGED <<variant, synthetic, pc, request, listCalls, createCalls,
                   fetched, buckets, listOutcome, createOutcome, httpStatus,
                   returned>>

\* The event GitHub sends when the check run has finished.
CompletionEvent(run) ==
    [RelevantEvent EXCEPT !.name = run.name, !.status = run.status,
                          !.conclusion = run.conclusion]

\* The check runs whose completion has been delivered.
DeliveredNames ==
    { request[d].event.name : d \in { e \in Deliveries : pc[e] # "idle" } }

\* The requests of the completions not yet delivered.
UndeliveredCompletions ==
    { Request(TRUE, TRUE, "check_run", CompletionEvent(store[j].run)) :
        j \in { k \in 1..Len(store) :
                  /\ store[k].appID = observedAppID
                  /\ store[k].headSHA = Commit
                  /\ store[k].run.status = "completed"
                  /\ store[k].run.name \notin DeliveredNames } }

\* The completion of a check run is delivered, when no other delivery is
\* being handled.
DeliverCompletion ==
    \E d \in Deliveries :
        /\ \A e \in Deliveries \ {d} : pc[e] \in {"idle", "done"}
        /\ Receive(d, UndeliveredCompletions)

\* The responses of calls that do not fail.
ListedOK == { o \in ListOutcomes : ListSucceeded(o) }

CreatedOK == { o \in CreateOutcomes : CreateSucceeded(o) }

ListSucceeds == \E d \in Deliveries : ListReturns(d, ListedOK)

CreateSucceeds == \E d \in Deliveries : CreateReturns(d, CreatedOK)

NextSequential ==
    CheckRunFinishes \/ DeliverCompletion \/ ListSucceeds \/ CreateSucceeds

\* Check runs finish, completions are delivered and calls return: the
\* system does not stop while one of these can happen.
SpecSequential ==
    InitSequential /\ [][NextSequential]_vars /\ WF_vars(NextSequential)

-----------------------------------------------------------------------------
(* Properties. *)

\* The delivery's request reached handleCheckRunEvent.
Handed(d) ==
    /\ pc[d] # "idle"
    /\ request[d].signatureValid
    /\ request[d].decodes
    /\ request[d].webHookType = "check_run"

\* The event's application is the observed one, as the deployed variant
\* identifies it.
IdentityMatches(d) ==
    \/ variant = "name" /\ request[d].event.app.name = observedAppName
    \/ variant = "id" /\ request[d].event.app.id = observedAppID

\* The delivery's list call returned the check runs it classified.
Aggregated(d) == pc[d] \in {"create", "done"} /\ createCalls[d] # <<>>

Occurrences(seq, x) == Cardinality({ i \in 1..Len(seq) : seq[i] = x })

BucketNames == {"success", "failure", "inProgress"}

\* The decision table of the classification.
TableBucket(status, conclusion) ==
    CASE status # "completed" -> "inProgress"
      [] status = "completed"
           /\ conclusion \in {"failure", "cancelled", "stale", "timed_out"}
           -> "failure"
      [] status = "completed" /\ conclusion = "action_required"
           -> "inProgress"
      [] OTHER -> "success"

\* C1: an event handed to handleCheckRunEvent whose application is not the
\* observed one, or whose conclusion is empty, causes neither a list call
\* nor a create call; a list call is issued only for an event of the
\* observed application with a non-empty conclusion.
C1_FilterGatesCalls ==
    \A d \in Deliveries :
        Handed(d) =>
            /\ (~IdentityMatches(d) \/ request[d].event.conclusion = "")
                  => listCalls[d] = <<>> /\ createCalls[d] = <<>>
            /\ listCalls[d] # <<>>
                  => IdentityMatches(d) /\ request[d].event.conclusion # ""

\* Two deliveries were filtered out, one for its application and one for
\* its empty conclusion, and neither made a call.
C1_Witness ==
    \E d, e \in Deliveries :
        /\ Handed(d) /\ pc[d] = "done" /\ ~IdentityMatches(d)
        /\ request[d].event.conclusion # ""
        /\ listCalls[d] = <<>> /\ createCalls[d] = <<>>
        /\ Handed(e) /\ pc[e] = "done" /\ IdentityMatches(e)
        /\ request[e].event.conclusion = ""
        /\ listCalls[e] = <<>> /\ createCalls[e] = <<>>

\* C2: the three buckets partition the fetched list: their sizes sum to
\* its length, and every entry occurs in the buckets together as often as
\* in the list (none dropped, duplicated, or merged with one of its name).
C2_ClassificationPartitions ==
    \A d \in Deliveries :
        Aggregated(d) =>
            /\ Len(buckets[d].success) + Len(buckets[d].failure)
                  + Len(buckets[d].inProgress) = Len(fetched[d])
            /\ \A i \in 1..Len(fetched[d]) :
                  LET x == BucketEntry(variant, fetched[d][i]) IN
                  Occurrences(buckets[d].success, x)
                     + Occurrences(buckets[d].failure, x)
                     + Occurrences(buckets[d].inProgress, x)
                  = Cardinality({ j \in 1..Len(fetched[d]) :
                        BucketEntry(variant, fetched[d][j]) = x })

\* A list with two records of one name and details page in one bucket has
\* been classified.
C2_Witness ==
    \E d \in Deliveries :
        /\ Aggregated(d)
        /\ \E i, j \in 1..Len(fetched[d]) :
              /\ i < j
              /\ fetched[d][i].name = fetched[d][j].name
              /\ fetched[d][i].detailsURL = fetched[d][j].detailsURL
              /\ Len(buckets[d].success) >= 2

\* C3: every record is classified by the decision table: each bucket has
\* as many entries as the list has records the table sends to it, and
\* each record's entry is in the bucket the table names.
C3_DecisionTable ==
    \A d \in Deliveries :
        Aggregated(d) =>
            /\ \A X \in BucketNames :
                  Len(buckets[d][X])
                  = Cardinality({ i \in 1..Len(fetched[d]) :
                        TableBucket(fetched[d][i].status,
                                    fetched[d][i].conclusion) = X })
            /\ \A i \in 1..Len(fetched[d]) :
                  \E k \in 1..Len(buckets[d][TableBucket(
                                     fetched[d][i].status,
                                     fetched[d][i].conclusion)]) :
                      buckets[d][TableBucket(fetched[d][i].status,
                                             fetched[d][i].conclusion)][k]
                      = BucketEntry(variant, fetched[d][i])

\* A queued record that carries the conclusion failure has been put in the
\* inProgress bucket.
C3_Witness ==
    \E d \in Deliveries :
        /\ Aggregated(d)
        /\ Len(fetched[d]) = 1
        /\ fetched[d][1].status = "queued"
        /\ fetched[d][1].conclusion = "failure"
        /\ Len(buckets[d].inProgress) = 1

\* C4: whenever the failure bucket is non-empty the create call carries
\* status completed and conclusion failure, whatever the other buckets.
C4_FailureDominates ==
    \A d \in Deliveries :
        Aggregated(d) /\ Len(buckets[d].failure) > 0 =>
            /\ createCalls[d][1].Status = "completed"
            /\ createCalls[d][1].Conclusion = "failure"

\* A create call was issued with all three buckets non-empty.
C4_Witness ==
    \E d \in Deliveries :
        /\ Aggregated(d)
        /\ Len(buckets[d].failure) > 0
        /\ Len(buckets[d].success) > 0
        /\ Len(buckets[d].inProgress) > 0
        /\ createCalls[d][1].Conclusion = "failure"

\* C5: whenever the failure bucket is empty and the inProgress bucket is
\* not, the create call carries status in_progress and no conclusion (nil,
\* not the empty string), whatever the success bucket.
C5_PendingDominatesSuccess ==
    \A d \in Deliveries :
        Aggregated(d) /\ Len(buckets[d].failure) = 0
                      /\ Len(buckets[d].inProgress) > 0 =>
            /\ createCalls[d][1].Status = "in_progress"
            /\ createCalls[d][1].Conclusion = Nil
            /\ createCalls[d][1].Conclusion # ""

\* A create call was issued with successes and pending checks only.
C5_Witness ==
    \E d \in Deliveries :
        /\ Aggregated(d)
        /\ Len(buckets[d].failure) = 0
        /\ Len(buckets[d].success) > 0
        /\ Len(buckets[d].inProgress) > 0
        /\ createCalls[d][1].Status = "in_progress"

\* The delivery's list call has returned, and failed.
ListFailed(d) ==
    /\ listOutcome[d] # NoOutcome
    /\ (listOutcome[d].err \/ listOutcome[d].statusCode # StatusOK)

\* The delivery's list call has returned without error and with 200.
ListOK(d) == ~listOutcome[d].err /\ listOutcome[d].statusCode = StatusOK

\* The delivery's create call has returned, and failed.
CreateFailed(d) ==
    /\ createOutcome[d] # NoOutcome
    /\ (createOutcome[d].err \/ createOutcome[d].statusCode # StatusCreated)

\* The delivery's create call has returned without error and with 201.
CreateOK(d) ==
    ~createOutcome[d].err /\ createOutcome[d].statusCode = StatusCreated

\* C6: a relevant event whose list call succeeds with zero check runs
\* still issues exactly one create call, with status completed, conclusion
\* success and empty title and summary; the empty list is no error: the
\* handler returns nil once the create call has succeeded.
C6_VacuousSuccess ==
    \A d \in Deliveries :
        Handed(d) /\ pc[d] \in {"create", "done"} /\ ListOK(d)
                  /\ fetched[d] = <<>> =>
            /\ Len(createCalls[d]) = 1
            /\ createCalls[d][1].Status = "completed"
            /\ createCalls[d][1].Conclusion = "success"
            /\ createCalls[d][1].Title = ""
            /\ createCalls[d][1].Summary = ""
            /\ returned[d] # "error listing check runs"
            /\ (pc[d] = "done" /\ CreateOK(d) =>
                  returned[d] = "nil" /\ httpStatus[d] = StatusOK)

\* A delivery that fetched no check run has published its check run.
C6_Witness ==
    \E d \in Deliveries :
        /\ Handed(d) /\ pc[d] = "done" /\ ListOK(d) /\ CreateOK(d)
        /\ fetched[d] = <<>>
        /\ Len(synthetic) = 1
        /\ synthetic[1].run.Title = ""
        /\ returned[d] = "nil"

\* C7: a create call is issued only after the delivery's own list call
\* has returned without error and with status 200; when the list call
\* fails, no create call is issued and the handler returns an error.
C7_FetchGatesPublish ==
    \A d \in Deliveries :
        /\ createCalls[d] # <<>> =>
              /\ listCalls[d] # <<>>
              /\ listOutcome[d] # NoOutcome
              /\ ~listOutcome[d].err
              /\ listOutcome[d].statusCode = StatusOK
        /\ ListFailed(d) =>
              /\ createCalls[d] = <<>>
              /\ pc[d] = "done"
              /\ returned[d] = "error listing check runs"
              /\ httpStatus[d] = StatusInternalServerError

\* One delivery's list call returned an unexpected status code and it
\* stopped there, while another one went on to its create call.
C7_Witness ==
    \E d, e \in Deliveries :
        /\ pc[d] = "done" /\ ~listOutcome[d].err
        /\ listOutcome[d].statusCode = 204
        /\ createCalls[d] = <<>>
        /\ returned[d] = "error listing check runs"
        /\ createCalls[e] # <<>>

\* No delivery has issued more than one list call or more than one create
\* call, and one whose list call succeeded has issued exactly one create
\* call.
C8_AtMostOnce ==
    \A d \in Deliveries :
        /\ Len(listCalls[d]) <= 1
        /\ Len(createCalls[d]) <= 1
        /\ (listCalls[d] # <<>> /\ listOutcome[d] # NoOutcome /\ ListOK(d))
              => Len(createCalls[d]) = 1

\* What one delivery keeps: its request, calls, locals and answer.
Locals(d) ==
    <<pc[d], request[d], listCalls[d], createCalls[d], fetched[d],
      buckets[d], listOutcome[d], createOutcome[d], httpStatus[d],
      returned[d]>>

\* A step of one delivery changes nothing another delivery keeps and
\* nothing of the configuration, and a step that fails changes nothing
\* else at all, unless the server carried the create out before the error.
C8_StepIsLocal ==
    \A d \in Deliveries :
        pc'[d] # pc[d] =>
            /\ \A e \in Deliveries \ {d} : Locals(e)' = Locals(e)
            /\ variant' = variant
            /\ store' = store
            /\ (httpStatus'[d] = StatusInternalServerError
                  /\ ~createOutcome'[d].applied => synthetic' = synthetic)

\* C8: no retry: a delivery issues at most one list call and at most one
\* create call whatever their outcomes, exactly one create call when its
\* list call succeeded, and its steps, failing ones included, leave the
\* other deliveries as they were.
C8_NoRetry == []C8_AtMostOnce /\ [][C8_StepIsLocal]_vars

\* A delivery whose create call failed has ended, with one call of each
\* kind, before a later delivery published its check run.
C8_Witness ==
    \E d, e \in Deliveries :
        /\ d < e
        /\ pc[d] = "done" /\ CreateFailed(d)
        /\ Len(listCalls[d]) = 1 /\ Len(createCalls[d]) = 1
        /\ pc[e] = "done" /\ ListOK(e) /\ CreateOK(e)
        /\ Len(createCalls[e]) = 1

\* C9: a delivery that fails validation or decoding is answered 400 and
\* never reaches handleCheckRunEvent; a check_run delivery whose list or
\* create call fails is answered 500; every other delivery is answered
\* 200, and one of another event type or filtered out makes no API call.
C9_ResponseCodes ==
    \A d \in Deliveries :
        pc[d] = "done" =>
            LET r == request[d]
                accepted == r.signatureValid /\ r.decodes
                failed == r.webHookType = "check_run"
                          /\ (ListFailed(d) \/ CreateFailed(d))
                dropped == \/ r.webHookType # "check_run"
                           \/ ~IdentityMatches(d)
                           \/ r.event.conclusion = ""
            IN
            /\ ~accepted =>
                  /\ httpStatus[d] = StatusBadRequest
                  /\ returned[d] = "none"
                  /\ listCalls[d] = <<>> /\ createCalls[d] = <<>>
            /\ accepted /\ failed =>
                  httpStatus[d] = StatusInternalServerError
            /\ accepted /\ ~failed => httpStatus[d] = StatusOK
            /\ accepted /\ dropped =>
                  listCalls[d] = <<>> /\ createCalls[d] = <<>>

\* An undecodable delivery was answered 400 and one whose create call
\* failed was answered 500.
C9_Witness ==
    \E d, e \in Deliveries :
        /\ pc[d] = "done" /\ request[d].signatureValid
        /\ ~request[d].decodes
        /\ httpStatus[d] = StatusBadRequest
        /\ pc[e] = "done" /\ CreateFailed(e)
        /\ httpStatus[e] = StatusInternalServerError

\* The delivery published its check run: both of its calls succeeded.
Published(d) ==
    pc[d] = "done" /\ listOutcome[d] # NoOutcome /\ ListOK(d) /\ CreateOK(d)

\* The synthetic check runs have distinct ids, and every commit has at
\* least as many as deliveries that published for it, one for each.
C10_OnePerPublish ==
    /\ \A i, j \in 1..Len(synthetic) :
          i # j => synthetic[i].id # synthetic[j].id
    /\ \A d \in Deliveries :
          Published(d) =>
              \E i \in 1..Len(synthetic) :
                  /\ synthetic[i].by = d
                  /\ synthetic[i].run = createCalls[d][1]
    /\ \A sha \in {Commit, OtherCommit} :
          Cardinality({ d \in Deliveries :
              Published(d) /\ request[d].event.headSHA = sha })
          <= Cardinality({ synthetic[i].id : i \in
                { j \in 1..Len(synthetic) : synthetic[j].run.HeadSHA = sha } })

\* Every step keeps the synthetic check runs that exist as they are.
C10_Keeps ==
    /\ Len(synthetic') >= Len(synthetic)
    /\ SubSeq(synthetic', 1, Len(synthetic)) = synthetic

\* C10: the create call always creates: n deliveries that published for a
\* commit leave n distinct synthetic check runs on it, and no step
\* changes, replaces or removes one that exists.
C10_AlwaysCreates == []C10_OnePerPublish /\ [][C10_Keeps]_vars

\* Two deliveries have published for the same commit and two synthetic
\* check runs exist on it.
C10_Witness ==
    \E d, e \in Deliveries :
        /\ d # e
        /\ Published(d) /\ Published(e)
        /\ request[d].event.headSHA = request[e].event.headSHA
        /\ Len(synthetic) = 2
        /\ synthetic[1].run.HeadSHA = synthetic[2].run.HeadSHA

\* The next delivery to arrive.
NextToArrive(d) ==
    pc[d] = "idle" /\ \A e \in Deliveries : e < d => pc[e] # "idle"

\* Delivery d is in flight for the commit and nothing has been published.
InFlightFor(d, sha) ==
    /\ pc[d] \in {"list", "create"}
    /\ request[d].event.headSHA = sha
    /\ synthetic = <<>>

\* C11: no lock orders the deliveries for a commit: while one is between
\* its arrival and the return of its create call, another for the same
\* commit can arrive, its list call can return, and, when both have
\* fetched, either create call can return; and when two deliveries that
\* fetched for the same commit have both published, each has left a
\* synthetic check run of its own.
C11_NoLockBetweenDeliveries ==
    /\ \A d, e \in Deliveries :
          d # e /\ InFlightFor(d, Commit) =>
             /\ NextToArrive(e) => ENABLED Receive(e, RelevantRequests)
             /\ (pc[e] = "list" /\ pc[d] = "create"
                   /\ request[e].event.headSHA = Commit)
                => ENABLED ListReturns(e, ListedOK)
             /\ (pc[e] = "create" /\ pc[d] = "create"
                   /\ request[e].event.headSHA = Commit)
                => ENABLED CreateReturns(e, CreatedOK)
    /\ \A d, e \in Deliveries :
          (/\ d # e
           /\ Published(d) /\ Published(e)
           /\ request[d].event.headSHA = request[e].event.headSHA)
          => \E i, j \in 1..Len(synthetic) :
                /\ i # j
                /\ synthetic[i].by = d /\ synthetic[i].run = createCalls[d][1]
                /\ synthetic[j].by = e /\ synthetic[j].run = createCalls[e][1]

\* Two deliveries for the same commit have both completed their list call,
\* with identical snapshots, and neither create call has been carried out:
\* both create calls are pending and no synthetic check run exists yet.
C11_Witness ==
    \E d, e \in Deliveries :
        /\ d # e
        /\ pc[d] = "create" /\ pc[e] = "create"
        /\ ListOK(d) /\ ListOK(e)
        /\ request[d].event.headSHA = request[e].event.headSHA
        /\ fetched[d] = fetched[e] /\ Len(fetched[d]) > 0
        /\ synthetic = <<>>


\* The number of fetched records the decision table sends to a bucket.
CountOf(checkRuns, bucket) ==
    Cardinality({ i \in 1..Len(checkRuns) :
        TableBucket(checkRuns[i].status, checkRuns[i].conclusion) = bucket })

\* The title for the three bucket sizes, written out fragment by fragment.
ExpectedTitle(s, f, p) ==
    (IF s > 0 THEN ToString(s) \o " successful" ELSE "")
    \o (IF s > 0 /\ f > 0 THEN ", " ELSE "")
    \o (IF f > 0 THEN ToString(f) \o " failed" ELSE "")
    \o (IF (s > 0 \/ f > 0) /\ p > 0 THEN ", " ELSE "")
    \o (IF p > 0 THEN ToString(p) \o " in progress" ELSE "")

\* C12: the title of the create call is the fragments "<n> successful",
\* "<n> failed", "<n> in progress" of the non-empty buckets only, in that
\* order, joined with ", "; each count is the size of its bucket, so the
\* counts sum to the number of fetched records.
C12_TitleRendering ==
    \A d \in Deliveries :
        Aggregated(d) =>
            LET s == CountOf(fetched[d], "success")
                f == CountOf(fetched[d], "failure")
                p == CountOf(fetched[d], "inProgress")
            IN /\ createCalls[d][1].Title = ExpectedTitle(s, f, p)
               /\ s = Len(buckets[d].success)
               /\ f = Len(buckets[d].failure)
               /\ p = Len(buckets[d].inProgress)
               /\ s + f + p = Len(fetched[d])

\* A title of two fragments has been rendered: no record failed, so the
\* failed fragment is absent, and two records are pending.
C12_Witness ==
    \E d \in Deliveries :
        /\ Aggregated(d)
        /\ Len(buckets[d].failure) = 0
        /\ createCalls[d][1].Title = "1 successful, 2 in progress"

\* The fetched records the decision table sends to a bucket, in the order
\* of the fetched list.
InOrder(checkRuns, bucket) ==
    SelectSeq(checkRuns,
              LAMBDA r : TableBucket(r.status, r.conclusion) = bucket)

\* The bullet line of one record, by variant.
ExpectedBullet(v, r) ==
    IF v = "name" THEN "- [" \o r.name \o "](" \o r.detailsURL \o ");"
    ELSE "- " \o r.name

RECURSIVE BulletLines(_, _)
\* One bullet line per record, each after a line break.
BulletLines(v, recs) ==
    IF Len(recs) = 0 THEN ""
    ELSE "\n" \o ExpectedBullet(v, Head(recs)) \o BulletLines(v, Tail(recs))

\* The text of the sections of the non-empty buckets under the three
\* headers, a blank line between consecutive sections.
SectionsText(v, checkRuns, headers) ==
    LET s == InOrder(checkRuns, "success")
        f == InOrder(checkRuns, "failure")
        p == InOrder(checkRuns, "inProgress")
    IN (IF Len(s) > 0 THEN headers[1] \o BulletLines(v, s) ELSE "")
       \o (IF Len(s) > 0 /\ Len(f) > 0 THEN "\n\n" ELSE "")
       \o (IF Len(f) > 0 THEN headers[2] \o BulletLines(v, f) ELSE "")
       \o (IF (Len(s) > 0 \/ Len(f) > 0) /\ Len(p) > 0 THEN "\n\n" ELSE "")
       \o (IF Len(p) > 0 THEN headers[3] \o BulletLines(v, p) ELSE "")

\* The line break that ends the text: after every section of the name
\* variant, and in the ID variant after all but the in-progress section.
Terminator(v, checkRuns) ==
    IF Len(checkRuns) = 0 THEN ""
    ELSE IF v = "id" /\ Len(InOrder(checkRuns, "inProgress")) > 0 THEN ""
    ELSE "\n"

SectionHeaders ==
    <<"## Successful checks:", "## Failed checks:", "## Checks in progress:">>

\* C13 (amended): the summary is one section per non-empty bucket, in the
\* order success, failure, in-progress; the headers are
\* "## Successful checks:", "## Failed checks:" and "## Checks in progress:";
\* a header is followed by exactly one bullet line per record of its
\* bucket; consecutive sections are separated by a blank line; empty
\* buckets contribute no lines.
C13_SummaryStructure ==
    \A d \in Deliveries :
        Aggregated(d) =>
            createCalls[d][1].Summary =
                SectionsText(variant, fetched[d], SectionHeaders)
                \o Terminator(variant, fetched[d])

\* A summary of three sections has been rendered.
C13_Witness ==
    \E d \in Deliveries :
        /\ Aggregated(d)
        /\ variant = "id"
        /\ createCalls[d][1].Summary =
              "## Successful checks:\n- build\n\n"
              \o "## Failed checks:\n- build\n\n"
              \o "## Checks in progress:\n- test"

RECURSIVE SplitFrom(_, _, _)
SplitFrom(str, start, i) ==
    IF i > Len(str) THEN <<SubSeq(str, start, Len(str))>>
    ELSE IF SubSeq(str, i, i) = "\n"
    THEN <<SubSeq(str, start, i - 1)>> \o SplitFrom(str, i + 1, i + 1)
    ELSE SplitFrom(str, start, i + 1)

\* The lines of a text.
Lines(str) == SplitFrom(str, 1, 1)

StartsWith(str, prefix) ==
    Len(str) >= Len(prefix) /\ SubSeq(str, 1, Len(prefix)) = prefix

EndsWith(str, suffix) ==
    /\ Len(str) >= Len(suffix)
    /\ SubSeq(str, Len(str) - Len(suffix) + 1, Len(str)) = suffix

\* C13 as stated: every section header line has the form
\* "## <Bucket label> checks:".
C13_HeadersEndInChecks ==
    \A d \in Deliveries :
        Aggregated(d) =>
            LET ls == Lines(createCalls[d][1].Summary) IN
            \A i \in 1..Len(ls) :
                StartsWith(ls[i], "## ") => EndsWith(ls[i], " checks:")

\* C14: classification is a stable partition: each bucket holds the
\* entries of the fetched records the decision table sends to it, in the
\* order of the fetched list; and rendering is a function of the buckets:
\* rendering the delivery's buckets again gives the title and the summary
\* of its create call.
C14_StablePartition ==
    \A d \in Deliveries :
        Aggregated(d) =>
            /\ \A X \in BucketNames :
                  LET recs == InOrder(fetched[d], X) IN
                  buckets[d][X] =
                      [i \in 1..Len(recs) |-> BucketEntry(variant, recs[i])]
            /\ createCalls[d][1].Title = Title(buckets[d])
            /\ createCalls[d][1].Summary = Summary(variant, buckets[d])

\* Two records of one bucket with different names, apart in the fetched
\* list with a record of another bucket between them, are in their bucket
\* in the order of the list.
C14_Witness ==
    \E d \in Deliveries :
        /\ Aggregated(d)
        /\ Len(fetched[d]) = 3
        /\ fetched[d][1].name # fetched[d][3].name
        /\ \E X \in BucketNames :
              /\ TableBucket(fetched[d][1].status, fetched[d][1].conclusion) = X
              /\ TableBucket(fetched[d][2].status, fetched[d][2].conclusion) # X
              /\ TableBucket(fetched[d][3].status, fetched[d][3].conclusion) = X
              /\ buckets[d][X] = <<BucketEntry(variant, fetched[d][1]),
                                   BucketEntry(variant, fetched[d][3])>>

Contains(str, sub) ==
    \E i \in 1..(Len(str) - Len(sub) + 1) :
        SubSeq(str, i, i + Len(sub) - 1) = sub

\* The bullet lines of a summary, top to bottom.
BulletLinesOf(summary) ==
    SelectSeq(Lines(summary), LAMBDA l : StartsWith(l, "- "))

\* C15 as stated: every bullet line of the summary names its record, and
\* holds a link to the record's details page exactly when the record has
\* a details URL: a record without one is rendered by name alone, with no
\* link and no empty link target.
C15_LinkWhenAvailable ==
    \A d \in Deliveries :
        Aggregated(d) =>
            LET bl == BulletLinesOf(createCalls[d][1].Summary)
                recs == InOrder(fetched[d], "success")
                        \o InOrder(fetched[d], "failure")
                        \o InOrder(fetched[d], "inProgress")
            IN /\ Len(bl) = Len(recs)
               /\ \A i \in 1..Len(recs) :
                     /\ Contains(bl[i], recs[i].name)
                     /\ IF recs[i].detailsURL # ""
                        THEN Contains(bl[i], "](" \o recs[i].detailsURL \o ")")
                        ELSE ~Contains(bl[i], "](")

\* The stored check runs of an application on a commit.
StoredFor(appID, sha) ==
    { j \in 1..Len(store) :
        store[j].appID = appID /\ store[j].headSHA = sha }

\* C16: the list call and the create call carry the owner login, the
\* repository name and the head SHA of the triggering event; the list call
\* is filtered to the observed application (in the name variant by the
\* application ID of the event, whose name is the observed one); and the
\* records classified are check runs of that application on that commit,
\* all of them and no other.
C16_CallTargeting ==
    \A d \in Deliveries :
        LET ev == request[d].event IN
        /\ listCalls[d] # <<>> =>
              LET call == listCalls[d][1] IN
              /\ call.owner = ev.owner /\ call.repo = ev.repo
              /\ call.ref = ev.headSHA
              /\ call.appID = observedAppID
              /\ variant = "name" =>
                    call.appID = ev.app.id /\ ev.app.name = observedAppName
        /\ createCalls[d] # <<>> =>
              /\ createCalls[d][1].owner = ev.owner
              /\ createCalls[d][1].repo = ev.repo
              /\ createCalls[d][1].HeadSHA = ev.headSHA
        /\ Aggregated(d) =>
              /\ Len(fetched[d])
                    = Cardinality(StoredFor(observedAppID, ev.headSHA))
              /\ \A i \in 1..Len(fetched[d]) :
                    \E j \in StoredFor(observedAppID, ev.headSHA) :
                        /\ store[j].run.name = fetched[d][i].name
                        /\ store[j].run.detailsURL = fetched[d][i].detailsURL

\* One delivery has classified the two check runs of the observed
\* application on its commit and another the one check run on the other
\* commit, the other application's check run in neither list.
C16_Witness ==
    \E d, e \in Deliveries :
        /\ Aggregated(d) /\ Aggregated(e)
        /\ request[d].event.headSHA = Commit
        /\ request[e].event.headSHA = OtherCommit
        /\ Len(fetched[d]) = 2
        /\ fetched[e] = <<Noise[2].run>>
        /\ \A i \in 1..Len(fetched[d]) : fetched[d][i] # Noise[1].run
        /\ createCalls[d][1].HeadSHA = Commit
        /\ createCalls[e][1].HeadSHA = OtherCommit

\* The pairs of status and conclusion a create call may carry.
PublishedPairs ==
    { <<"completed", "failure">>, <<"in_progress", Nil>>,
      <<"completed", "success">> }

\* C17: every create call issued, and every synthetic check run created,
\* carries a conclusion exactly when its status is completed, and its
\* status and conclusion are one of (completed, failure),
\* (in_progress, none), (completed, success).
C17_StatusConclusionPairing ==
    /\ \A d \in Deliveries :
          \A k \in 1..Len(createCalls[d]) :
              LET call == createCalls[d][k] IN
              /\ (call.Conclusion # Nil) <=> (call.Status = "completed")
              /\ <<call.Status, call.Conclusion>> \in PublishedPairs
    /\ \A i \in 1..Len(synthetic) :
          /\ (synthetic[i].run.Conclusion # Nil)
                <=> (synthetic[i].run.Status = "completed")
          /\ <<synthetic[i].run.Status, synthetic[i].run.Conclusion>>
                \in PublishedPairs

\* A synthetic check run in progress, without a conclusion, has been
\* created from a list in which no check run failed and one is pending.
C17_Witness ==
    \E d \in Deliveries :
        /\ Published(d)
        /\ Len(buckets[d].failure) = 0
        /\ Len(buckets[d].inProgress) > 0
        /\ Len(synthetic) = 1
        /\ synthetic[1].run.Status = "in_progress"
        /\ synthetic[1].run.Conclusion = Nil

\* The status and conclusion the decision table gives a fetched list.
ExpectedPair(checkRuns) ==
    IF CountOf(checkRuns, "failure") > 0 THEN <<"completed", "failure">>
    ELSE IF CountOf(checkRuns, "inProgress") > 0 THEN <<"in_progress", Nil>>
    ELSE <<"completed", "success">>

\* C18: under every interleaving, the buckets of a delivery and the
\* status, conclusion, title and summary of its create call are those of
\* the list its own list call returned, whatever the other deliveries
\* fetched, classified or published.
C18_RequestLocalDecision ==
    \A d \in Deliveries :
        Aggregated(d) =>
            LET own == fetched[d]
                call == createCalls[d][1]
            IN /\ \A X \in BucketNames :
                     Len(buckets[d][X]) = CountOf(own, X)
               /\ <<call.Status, call.Conclusion>> = ExpectedPair(own)
               /\ call.Title = ExpectedTitle(CountOf(own, "success"),
                                             CountOf(own, "failure"),
                                             CountOf(own, "inProgress"))
               /\ call.Summary = SectionsText(variant, own, SectionHeaders)
                                 \o Terminator(variant, own)

\* Two deliveries for the same commit are past their list calls with
\* different snapshots, the first with its create call still pending, and
\* their create calls differ in status and in title.
C18_Witness ==
    \E d, e \in Deliveries :
        /\ d # e
        /\ pc[d] = "create" /\ Aggregated(e)
        /\ request[d].event.headSHA = request[e].event.headSHA
        /\ fetched[d] # fetched[e]
        /\ createCalls[d][1].Status = "in_progress"
        /\ createCalls[e][1].Status = "completed"
        /\ createCalls[d][1].Title # createCalls[e][1].Title

\* The records of the observed application's check runs on the commit.
FinalSet == RunsOf(store, Commit, observedAppID)

\* Every check run has finished, every completion has been delivered and
\* handled, and the synthetic check run created last carries the status
\* and conclusion of the final set.
Settled ==
    /\ \A i \in 1..Len(FinalSet) : FinalSet[i].status = "completed"
    /\ \A d \in Deliveries : pc[d] = "done"
    /\ Len(synthetic) = NumDeliveries
    /\ <<synthetic[Len(synthetic)].run.Status,
         synthetic[Len(synthetic)].run.Conclusion>> = ExpectedPair(FinalSet)

\* C19: when deliveries do not overlap, every check run of the observed
\* application finishes and no call fails, the system comes to rest with
\* every completion handled, and the synthetic check run created last has
\* the status and conclusion of the final set: completed and failure if
\* any check run failed, in progress if none failed and one requires
\* action, completed and success otherwise.
C19_EventualAccuracy == <>[]Settled

\* The system is at rest with no failed check run and one that requires
\* action; the synthetic check run created last is in progress, and the
\* one created first, from an earlier snapshot, has another title.
C19_Witness ==
    /\ Settled
    /\ \E i \in 1..Len(FinalSet) : FinalSet[i].conclusion = "action_required"
    /\ \A i \in 1..Len(FinalSet) : FinalSet[i].conclusion # "timed_out"
                                   /\ FinalSet[i].conclusion # "failure"
    /\ synthetic[Len(synthetic)].run.Status = "in_progress"
    /\ synthetic[1].run.Title # synthetic[Len(synthetic)].run.Title

\* The variant that is not deployed.
OtherVariant == IF variant = "name" THEN "id" ELSE "name"

\* C20: the two variants agree on the decision: for an event both filters
\* accept and the list the delivery fetched, the other variant issues the
\* same list call, fills its three buckets to the same sizes and issues a
\* create call for the same owner, repository and commit with the same
\* status, conclusion and title; the create calls differ in the name of
\* the synthetic check run and, unless the list is empty, in the summary.
C20_VariantsAgree ==
    \A d \in Deliveries :
        (Aggregated(d) /\ ShouldProcess(OtherVariant, request[d].event)) =>
            LET ev == request[d].event
                ob == Classify(OtherVariant, fetched[d])
                oc == CreateCall(OtherVariant, ev, ob)
                call == createCalls[d][1]
            IN /\ ListCall(OtherVariant, ev) = listCalls[d][1]
               /\ \A X \in BucketNames : Len(ob[X]) = Len(buckets[d][X])
               /\ oc.owner = call.owner /\ oc.repo = call.repo
               /\ oc.HeadSHA = call.HeadSHA
               /\ oc.Status = call.Status
               /\ oc.Conclusion = call.Conclusion
               /\ oc.Title = call.Title
               /\ oc.Name # call.Name
               /\ (Len(fetched[d]) > 0) <=> (oc.Summary # call.Summary)

\* The deployed variant has classified a list with a successful, a failed
\* and a human-gated check run for an event the other variant accepts
\* too, and the other variant renders the same title over another summary.
C20_Witness ==
    \E d \in Deliveries :
        /\ Aggregated(d)
        /\ ShouldProcess(OtherVariant, request[d].event)
        /\ Len(buckets[d].success) > 0
        /\ Len(buckets[d].failure) > 0
        /\ \E i \in 1..Len(fetched[d]) :
              fetched[d][i].conclusion = "action_required"
        /\ Title(Classify(OtherVariant, fetched[d])) = createCalls[d][1].Title
        /\ Summary(OtherVariant, Classify(OtherVariant, fetched[d]))
              # createCalls[d][1].Summary

====
